---- MODULE Spec2Model ----
(***************************************************************************)
(* Mnemo audio emotion classifier: the training run of                     *)
(* emotion_model/train.py (early stopping, best checkpoint, export), the   *)
(* dataset adapter of emotion_model/dataset.py, and the inference adapter  *)
(* of expo-mnemo-backend/ml_model (emotion_classifier.py and the           *)
(* classify_audio.py command).                                             *)
(*                                                                         *)
(* Accuracies are integers in percent, confidences integers in per mille.  *)
(***************************************************************************)
EXTENDS Integers, Sequences, FiniteSets, TLC

VARIABLES
    \* ---- train.py main ----
    tpc,                      \* position in main: "loop", "stopped", ...
    args_epochs,              \* args.epochs
    early_stopping_patience,  \* args.early_stopping_patience
    epoch,                    \* number of epochs executed so far
    best_val_acc,             \* best_val_acc
    patience_counter,         \* patience_counter
    val_acc_history,          \* train_history['val_acc']
    loss_history,             \* train_history['loss']
    acc_history,              \* train_history['acc']
    val_loss_history,         \* train_history['val_loss']
    metrics,                  \* the locals train_loss, train_acc, val_loss, val_acc
    scheduler,                \* the ReduceLROnPlateau object
    lr,                       \* the optimizer's learning rate, in millionths
    model_state,              \* the network's parameters: number of train_epoch passes applied
    ckpt,                     \* the file output_dir/best_model.pth
    early_stop_msg,           \* "Early stopping triggered" was printed
    onnx_file,                \* the file output_dir/emotion_classifier.onnx
    coreml_file,              \* the file output_dir/EmotionClassifier.mlmodel
    \* ---- dataset.py AudioEmotionDataset and its use by train.py main ----
    dpc,                      \* position in main's dataset set-up
    manifest,                 \* the label column of the CSV at csv_path
    args_use_augmentation,    \* args.use_augmentation
    args_val_split,           \* args.val_split, in percent
    feature_args,             \* args.n_mels, args.time_steps, args.sample_rate
    datasets,                 \* heap of AudioEmotionDataset objects, by object id
    train_dataset,            \* the Subset train_dataset
    val_dataset,              \* the Subset val_dataset
    last_item,                \* outcome of the latest __getitem__
    \* ---- dataset.py AudioEmotionDataset._augment ----
    apc,                      \* "ready" before the call of _augment, "returned" after
    aug_self,                 \* self.n_mels, self.time_steps
    aug_input,                \* the array passed as `spectrogram`
    aug_draw,                 \* the random draws of the call
    aug_output,               \* the array returned
    \* ---- emotion_classifier.py and classify_audio.py ----
    model_file,               \* saved_model/emotion_model.h5: "absent", "corrupt", "ok"
    metadata_file,            \* saved_model/metadata.json
    argv_has_path,            \* len(sys.argv) >= 2
    classifiers,              \* heap of EmotionClassifier objects, by object id
    global_classifier,        \* the module global _classifier: an object id, 0 for None
    calls,                    \* number of classify calls made
    last_result,              \* outcome of the latest classify call
    last_model_result,        \* latest tuple returned from a model prediction
    last_stub_result,         \* latest tuple returned from _stub_classify
    stdout,                   \* lines printed to standard output
    exit_status               \* exit status of classify_audio.py, -1 while running

trainVars == <<tpc, args_epochs, early_stopping_patience, epoch, best_val_acc,
               patience_counter, val_acc_history, loss_history, acc_history,
               val_loss_history, metrics, scheduler, lr, model_state, ckpt,
               early_stop_msg, onnx_file, coreml_file>>

dataVars == <<dpc, manifest, args_use_augmentation, args_val_split, feature_args,
              datasets, train_dataset, val_dataset, last_item>>

augVars == <<apc, aug_self, aug_input, aug_draw, aug_output>>

inferVars == <<model_file, metadata_file, argv_has_path, classifiers,
               global_classifier, calls, last_result, last_model_result,
               last_stub_result, stdout, exit_status>>

vars == <<trainVars, dataVars, augVars, inferVars>>

-----------------------------------------------------------------------------
(* Bounds of the model *)

MaxEpochs == 5
MaxPatience == 3
MaxSamples == 2
MaxCalls == 3
\* np.random.random() is drawn as r / RandSteps for r in 0..RandSteps-1
RandSteps == 4

\* validation accuracies an epoch may measure, in percent
AccLevels == {0, 30, 40, 50}

\* validation losses an epoch may measure, in hundredths
LossLevels == {50, 80}

-----------------------------------------------------------------------------
(* Helpers *)

Last(s) == s[Len(s)]

RECURSIVE SeqMax(_)
\* the largest element of a sequence of naturals, 0 for the empty one
SeqMax(s) == IF s = <<>> THEN 0
             ELSE LET m == SeqMax(SubSeq(s, 1, Len(s) - 1))
                  IN IF Last(s) > m THEN Last(s) ELSE m

\* the 0-based index of the first element of s equal to v
FirstIndexOf(s, v) == CHOOSE i \in 0..(Len(s) - 1) :
                          /\ s[i + 1] = v
                          /\ \A j \in 0..(i - 1) : s[j + 1] # v

IsPrefix(s, t) == /\ Len(s) <= Len(t)
                  /\ \A i \in 1..Len(s) : s[i] = t[i]

-----------------------------------------------------------------------------
(* train.py main: the training loop *)

NoFile == [epoch |-> -1, model_state_dict |-> -1, val_acc |-> -1, run |-> "none"]

\* a best_model.pth left in output_dir by an earlier run (os.makedirs exist_ok)
StaleCheckpoint == [epoch |-> 0, model_state_dict |-> 0, val_acc |-> 40, run |-> "previous"]

\* an exported artifact file: absent, left by an earlier run, or written by this one
NoArtifact == [exists |-> FALSE, run |-> "none", params |-> -1, valid |-> FALSE]
StaleArtifact == [exists |-> TRUE, run |-> "previous", params |-> 0, valid |-> TRUE]
WrittenArtifact(params, valid) ==
    [exists |-> TRUE, run |-> "this", params |-> params, valid |-> valid]

\* onnx.checker.check_model(onnx.load(save_path)): raises unless the graph is valid
CheckModel(file) == file.valid

\* a tie counted as an improvement
ImprovedOrTie(val_acc, best) == val_acc >= best

\* `if val_acc > best_val_acc`
Improved(val_acc, best) == val_acc > best

\* the threshold has to be exceeded, not reached
PatienceExceeded(counter, patience) == counter > patience

\* `if patience_counter >= args.early_stopping_patience`
PatienceExhausted(counter, patience) == counter >= patience

\* the 1-based epoch number stored instead of the loop variable
BestCheckpointOneBased(e, state, val_acc) ==
    [epoch |-> e + 1, model_state_dict |-> state, val_acc |-> val_acc, run |-> "this"]

\* the dict handed to torch.save
BestCheckpoint(e, state, val_acc) ==
    [epoch |-> e, model_state_dict |-> state, val_acc |-> val_acc, run |-> "this"]

\* one pass of train_epoch changes the parameters
TrainEpoch(state) == state + 1

\* the (epoch_loss, epoch_acc) train_epoch returns for the pass that left the
\* parameters `state`: a loss in hundredths that falls and an accuracy in
\* percent that rises from pass to pass
TrainEpochMetrics(state) == [loss |-> 200 - (10 * state), acc |-> 10 + state]

NoMetrics == [train_loss |-> -1, train_acc |-> -1, val_loss |-> -1, val_acc |-> -1]

\* a history list that keeps only the latest entry
HistoryOverwrite(list, value) == <<value>>

\* train_history[key].append(value)
HistoryAppend(list, value) == Append(list, value)

\* --lr, default 0.001, in millionths
InitialLr == 1000

\* ReduceLROnPlateau(optimizer, mode='min', patience=3, factor=0.5)
SchedulerPatience == 3

\* the scheduler after construction: best = inf (held as -1), no bad epochs,
\* no step taken
NewScheduler == [best |-> -1, num_bad_epochs |-> 0, last_epoch |-> 0]

\* is_better for mode 'min' with the default relative threshold 1e-4:
\* a < best * (1 - 1e-4)
IsBetter(a, best) == (best = -1) \/ (a * 10000 < best * 9999)

\* scheduler.step(value): the scheduler and the learning rate after the call;
\* the rate is multiplied by the factor 0.5 when the bad epochs exceed the
\* patience
SchedulerStep(sched, rate, value) ==
    LET better == IsBetter(value, sched.best)
        bad == IF better THEN 0 ELSE sched.num_bad_epochs + 1
        reduce == bad > SchedulerPatience
    IN [scheduler |-> [best |-> IF better THEN value ELSE sched.best,
                       num_bad_epochs |-> IF reduce THEN 0 ELSE bad,
                       last_epoch |-> sched.last_epoch + 1],
        lr |-> IF reduce THEN rate \div 2 ELSE rate]

\* the scheduler stepped with the validation accuracy
SchedulerMetricAccuracy(val_loss, val_acc) == val_acc

\* the value handed to scheduler.step: val_loss
SchedulerMetric(val_loss, val_acc) == val_loss

TrainInit ==
    /\ tpc = "loop"
    /\ args_epochs \in 0..MaxEpochs
    /\ early_stopping_patience \in 1..MaxPatience
    /\ epoch = 0
    /\ best_val_acc = 0
    /\ patience_counter = 0
    /\ val_acc_history = <<>>
    /\ loss_history = <<>>
    /\ acc_history = <<>>
    /\ val_loss_history = <<>>
    /\ metrics = NoMetrics
    /\ scheduler = NewScheduler
    /\ lr = InitialLr
    /\ model_state = 0
    /\ ckpt \in {NoFile, StaleCheckpoint}
    /\ early_stop_msg = FALSE
    /\ onnx_file = IF ckpt = NoFile THEN NoArtifact ELSE StaleArtifact
    /\ coreml_file = IF ckpt = NoFile THEN NoArtifact ELSE StaleArtifact

\* one iteration of `for epoch in range(args.epochs)`
RunEpoch ==
    /\ tpc = "loop"
    /\ epoch < args_epochs
    /\ \E val_acc \in AccLevels, val_loss \in LossLevels :
         LET trained == TrainEpoch(model_state)
             stepped == SchedulerStep(scheduler, lr, SchedulerMetric(val_loss, val_acc))
         IN
         /\ model_state' = trained
         /\ metrics' = [train_loss |-> TrainEpochMetrics(trained).loss,
                        train_acc |-> TrainEpochMetrics(trained).acc,
                        val_loss |-> val_loss, val_acc |-> val_acc]
         /\ scheduler' = stepped.scheduler
         /\ lr' = stepped.lr
         /\ loss_history' = HistoryAppend(loss_history, metrics'.train_loss)
         /\ acc_history' = HistoryAppend(acc_history, metrics'.train_acc)
         /\ val_loss_history' = HistoryAppend(val_loss_history, val_loss)
         /\ val_acc_history' = HistoryAppend(val_acc_history, val_acc)
         /\ epoch' = epoch + 1
         /\ IF Improved(val_acc, best_val_acc)
            THEN /\ best_val_acc' = val_acc
                 /\ patience_counter' = 0
                 /\ ckpt' = BestCheckpoint(epoch, trained, val_acc)
                 /\ UNCHANGED <<tpc, early_stop_msg>>
            ELSE /\ patience_counter' = patience_counter + 1
                 /\ IF PatienceExhausted(patience_counter + 1, early_stopping_patience)
                    THEN /\ early_stop_msg' = TRUE
                         /\ tpc' = "stopped"
                    ELSE UNCHANGED <<tpc, early_stop_msg>>
                 /\ UNCHANGED <<best_val_acc, ckpt>>
    /\ UNCHANGED <<args_epochs, early_stopping_patience, onnx_file, coreml_file>>
    /\ UNCHANGED <<dataVars, augVars, inferVars>>

\* range(args.epochs) is exhausted
LoopExhausted ==
    /\ tpc = "loop"
    /\ epoch = args_epochs
    /\ tpc' = "stopped"
    /\ UNCHANGED <<args_epochs, early_stopping_patience, epoch, best_val_acc,
                   patience_counter, val_acc_history, loss_history, acc_history,
                   val_loss_history, metrics, scheduler, lr, model_state, ckpt,
                   early_stop_msg, onnx_file, coreml_file>>
    /\ UNCHANGED <<dataVars, augVars, inferVars>>

loopVars == <<args_epochs, early_stopping_patience, epoch, best_val_acc,
              patience_counter, val_acc_history, loss_history, acc_history,
              val_loss_history, metrics, scheduler, lr, early_stop_msg>>

\* "Load best model for export": torch.load of best_model.pth, load_state_dict,
\* the final evaluation and the classification report
LoadBestModel ==
    /\ tpc = "stopped"
    /\ IF ckpt = NoFile
       THEN /\ tpc' = "crashed"          \* torch.load raises FileNotFoundError
            /\ UNCHANGED model_state
       ELSE /\ tpc' = "loaded"
            /\ model_state' = ckpt.model_state_dict
    /\ UNCHANGED <<loopVars, ckpt, onnx_file, coreml_file>>
    /\ UNCHANGED <<dataVars, augVars, inferVars>>

\* export_to_onnx: torch.onnx.export writes save_path, then onnx.load and
\* onnx.checker.check_model validate what was written
ExportToOnnx ==
    /\ tpc = "loaded"
    /\ \E graph_valid \in BOOLEAN :
         /\ onnx_file' = WrittenArtifact(model_state, graph_valid)
         /\ tpc' = IF CheckModel(onnx_file') THEN "onnx_exported" ELSE "export_failed"
    /\ UNCHANGED <<loopVars, model_state, ckpt, coreml_file>>
    /\ UNCHANGED <<dataVars, augVars, inferVars>>

\* export_to_coreml: onnx.load(onnx_path), ct.convert, mlmodel.save
ExportToCoreML ==
    /\ tpc = "onnx_exported"
    /\ coreml_file' = WrittenArtifact(onnx_file.params, TRUE)
    /\ tpc' = "coreml_exported"
    /\ UNCHANGED <<loopVars, model_state, ckpt, onnx_file>>
    /\ UNCHANGED <<dataVars, augVars, inferVars>>

\* training_history.json and model_config.json are written, main returns
SaveHistoryAndConfig ==
    /\ tpc = "coreml_exported"
    /\ tpc' = "done"
    /\ UNCHANGED <<loopVars, model_state, ckpt, onnx_file, coreml_file>>
    /\ UNCHANGED <<dataVars, augVars, inferVars>>

TrainNext ==
    \/ RunEpoch
    \/ LoopExhausted
    \/ LoadBestModel
    \/ ExportToOnnx
    \/ ExportToCoreML
    \/ SaveHistoryAndConfig

-----------------------------------------------------------------------------
(* Properties of the training run *)

\* a step that executes one epoch
EpochStep == epoch' = epoch + 1

\* C1: in every epoch the patience counter is reset to 0 exactly when the
\* epoch's validation accuracy is strictly greater than the best of the
\* accuracies recorded before it (a tie increments), it is incremented by 1
\* otherwise, and the loop ends in the first epoch in which the counter
\* reaches early_stopping_patience, or else when args.epochs epochs have run.
C1_PatienceRule ==
    [][/\ EpochStep =>
            LET acc  == Last(val_acc_history')
                best == SeqMax(val_acc_history)
            IN /\ epoch < args_epochs
               /\ patience_counter < early_stopping_patience
               /\ (acc > best)  => patience_counter' = 0
               /\ (acc <= best) => patience_counter' = patience_counter + 1
               /\ (tpc' = "stopped") <=> (patience_counter' = early_stopping_patience)
               /\ early_stop_msg' <=> (patience_counter' = early_stopping_patience)
       /\ (tpc = "loop" /\ tpc' = "stopped" /\ ~EpochStep) =>
            /\ epoch = args_epochs
            /\ patience_counter < early_stopping_patience
       /\ (tpc' = "loop") => EpochStep
      ]_vars

\* an early stop after a run in which a tie with a positive best was measured
C1_Witness ==
    /\ tpc = "stopped"
    /\ early_stop_msg
    /\ epoch < args_epochs
    /\ \E i \in 2..Len(val_acc_history) :
         /\ val_acc_history[i] > 0
         /\ val_acc_history[i] = SeqMax(SubSeq(val_acc_history, 1, i - 1))

\* the run of C2: patience 2, a budget of at least 4 epochs, and accuracies
\* following 0.5, 0.5, 0.4, 0.3
C2_Run ==
    /\ early_stopping_patience = 2
    /\ args_epochs >= 4
    /\ IsPrefix(val_acc_history, <<50, 50, 40, 30>>)

\* C2 as stated: that run halts exactly after the 4th epoch.
C2_Original == (C2_Run /\ tpc = "stopped") => epoch = 4

\* C2 (amended): with patience 2, a budget of at least 4 epochs and the
\* accuracies 0.5, 0.5, 0.4, 0.3, the loop halts exactly after the 3rd
\* epoch: the tie of epoch 2 and the drop of epoch 3 are the two
\* non-improvements, and the 4th accuracy is never measured.
C2_HaltsAfterThird ==
    /\ (C2_Run /\ tpc = "stopped") =>
          /\ epoch = 3
          /\ val_acc_history = <<50, 50, 40>>
          /\ early_stop_msg
    /\ (C2_Run /\ tpc = "loop") => epoch < 3

C2_Witness == C2_Run /\ tpc = "stopped" /\ Len(val_acc_history) = 3

\* C6: best_model.pth is written in exactly the epochs whose validation
\* accuracy strictly exceeds the best recorded before, and never otherwise;
\* a checkpoint written by this run always holds the maximum validation
\* accuracy recorded so far and the (0-based) first epoch that reached it.
C6_CheckpointIsBest ==
    /\ [](ckpt.run = "this" =>
            /\ ckpt.val_acc = SeqMax(val_acc_history)
            /\ ckpt.epoch = FirstIndexOf(val_acc_history, SeqMax(val_acc_history)))
    /\ [][/\ EpochStep =>
               ((ckpt' # ckpt) <=> (Last(val_acc_history') > SeqMax(val_acc_history)))
          /\ (ckpt' # ckpt) => (EpochStep /\ ckpt'.run = "this")
         ]_vars

\* a checkpoint that replaced an earlier one of this run, followed by a
\* non-improving epoch
C6_Witness ==
    /\ ckpt.run = "this"
    /\ ckpt.epoch >= 1
    /\ Len(val_acc_history) > ckpt.epoch + 1
    /\ \E i \in 1..ckpt.epoch : val_acc_history[i] > 0

\* C4 as stated: after a failed validation of the exported graph no file
\* exists at save_path.
C4_NoArtifactAfterFailedValidation ==
    (tpc = "export_failed") => ~onnx_file.exists

\* the parameters the network had after the pass of the epoch with the
\* highest validation accuracy, first occurrence; -1 when no epoch ran
BestEpochParams ==
    IF val_acc_history = <<>>
    THEN -1
    ELSE FirstIndexOf(val_acc_history, SeqMax(val_acc_history)) + 1

\* C15 as stated: from the reload on, the model carries the parameters of the
\* epoch with the highest validation accuracy of the run (first occurrence);
\* an ONNX or Core ML file this run writes holds those parameters; the ONNX
\* file is written only after the reload, and the Core ML file only from an
\* ONNX file of this run that passed its validation.
C15_ExportsBestCheckpoint ==
    /\ [](tpc \in {"loaded", "onnx_exported", "export_failed", "coreml_exported", "done"} =>
            model_state = BestEpochParams)
    /\ [](onnx_file.run = "this" => onnx_file.params = BestEpochParams)
    /\ [](coreml_file.run = "this" =>
            /\ coreml_file.params = BestEpochParams
            /\ onnx_file.run = "this"
            /\ CheckModel(onnx_file))
    /\ [][/\ (onnx_file' # onnx_file) => tpc = "loaded"
          /\ (coreml_file' # coreml_file) => tpc = "onnx_exported"]_vars

\* C16: after k executed epochs, the one that triggers early stopping
\* included, each of the four history lists has exactly k entries; an epoch
\* appends to each list the metric that epoch measured, and no step changes
\* or removes an entry already present.
C16_HistoryAppendOnly ==
    /\ [](/\ Len(loss_history) = epoch
          /\ Len(acc_history) = epoch
          /\ Len(val_loss_history) = epoch
          /\ Len(val_acc_history) = epoch)
    /\ [][/\ IsPrefix(loss_history, loss_history')
          /\ IsPrefix(acc_history, acc_history')
          /\ IsPrefix(val_loss_history, val_loss_history')
          /\ IsPrefix(val_acc_history, val_acc_history')
          /\ EpochStep =>
               /\ metrics'.train_loss = TrainEpochMetrics(epoch').loss
               /\ metrics'.train_acc = TrainEpochMetrics(epoch').acc
               /\ loss_history'[epoch'] = metrics'.train_loss
               /\ acc_history'[epoch'] = metrics'.train_acc
               /\ val_loss_history'[epoch'] = metrics'.val_loss
               /\ val_acc_history'[epoch'] = metrics'.val_acc
         ]_vars

\* the run ended by early stopping in its third epoch or later, all three
\* epochs recorded
C16_Witness ==
    /\ tpc = "done"
    /\ early_stop_msg
    /\ epoch >= 3
    /\ Len(loss_history) = epoch
    /\ loss_history[1] # loss_history[epoch]
    /\ val_loss_history[1] # val_loss_history[epoch]

\* the scheduler and the learning rate after scheduler.step was called once
\* with each validation loss of the list, in order
RECURSIVE ScheduleAfter(_)
ScheduleAfter(losses) ==
    IF losses = <<>>
    THEN [scheduler |-> NewScheduler, lr |-> InitialLr]
    ELSE LET before == ScheduleAfter(SubSeq(losses, 1, Len(losses) - 1))
         IN SchedulerStep(before.scheduler, before.lr, Last(losses))

\* the patience counter after the epochs that measured the validation
\* accuracies of the list
RECURSIVE CounterAfter(_)
CounterAfter(accs) ==
    IF accs = <<>>
    THEN 0
    ELSE IF Last(accs) > SeqMax(SubSeq(accs, 1, Len(accs) - 1))
    THEN 0
    ELSE CounterAfter(SubSeq(accs, 1, Len(accs) - 1)) + 1

\* C17: the scheduler is stepped exactly once in every executed epoch, the
\* early-stopping epoch included, and in no other step; its state and the
\* learning rate are a function of the sequence of validation losses alone,
\* and the patience counter and the decision to stop are a function of the
\* sequence of validation accuracies (and the patience argument) alone.
C17_ScheduleIndependentOfStopping ==
    /\ [](LET schedule == ScheduleAfter(val_loss_history)
              counter == CounterAfter(val_acc_history)
          IN /\ scheduler.last_epoch = epoch
             /\ scheduler = schedule.scheduler
             /\ lr = schedule.lr
             /\ patience_counter = counter
             /\ early_stop_msg <=> (counter >= early_stopping_patience))
    /\ [][/\ EpochStep => scheduler'.last_epoch = scheduler.last_epoch + 1
          /\ (scheduler' # scheduler \/ lr' # lr) => EpochStep
          /\ (EpochStep /\ tpc' = "stopped") <=>
               (tpc = "loop" /\ early_stop_msg' /\ ~early_stop_msg)
         ]_vars

\* the learning rate was halved in the very epoch that triggered early
\* stopping
C17_Witness ==
    /\ tpc = "stopped"
    /\ early_stop_msg
    /\ lr < InitialLr
    /\ patience_counter >= 2
    /\ scheduler.num_bad_epochs = 0
    /\ val_loss_history[epoch] >= val_loss_history[epoch - 1]

\* C18 as stated: once the training loop has finished, by early stopping or
\* by exhausting the epoch budget, best_model.pth was written by this run, and
\* the reload that follows succeeds and reads that checkpoint.
C18_CheckpointWrittenThisRun ==
    /\ (tpc # "loop") => (ckpt.run = "this")
    /\ tpc # "crashed"
    /\ (tpc = "loaded") => (model_state = ckpt.model_state_dict)

-----------------------------------------------------------------------------
(* dataset.py: AudioEmotionDataset *)

\* self.emotion_classes
EMOTION_CLASSES == <<"happy", "sad", "angry", "surprised", "neutral">>

\* a label string that is not one of the five
UnknownLabel == "bored"

ManifestLabels == {EMOTION_CLASSES[i] : i \in 1..Len(EMOTION_CLASSES)} \cup {UnknownLabel}

\* self.emotion_to_idx: the 0-based position in emotion_classes; -1 stands for
\* the KeyError of a missing key
EmotionToIdx(label) ==
    IF \E i \in 1..Len(EMOTION_CLASSES) : EMOTION_CLASSES[i] = label
    THEN (CHOOSE i \in 1..Len(EMOTION_CLASSES) : EMOTION_CLASSES[i] = label) - 1
    ELSE -1

\* hop_length=512 of the melspectrogram call
HOP_LENGTH == 512

\* the (n_mels, time_steps, sample_rate) settings explored: the defaults, a
\* short low-rate setting, and one whose spectrogram has more frames than
\* time_steps
FeatureConfigs ==
    { [n_mels |-> 64, time_steps |-> 100, sample_rate |-> 16000],
      [n_mels |-> 40, time_steps |-> 20,  sample_rate |-> 8000],
      [n_mels |-> 64, time_steps |-> 10,  sample_rate |-> 96000] }

\* target_length = int(sample_rate * (time_steps * 0.01))
TargetLength(cfg) == (cfg.sample_rate * cfg.time_steps) \div 100

\* what librosa.load finds at audio_path: a waveform of some length at the
\* target rate, or a file it cannot decode
AudioInputs(cfg) ==
    LET T == TargetLength(cfg)
        lens == {0, 1, T - 1, T, T + 1, cfg.sample_rate - 1, cfg.sample_rate,
                 3 * cfg.sample_rate}
    IN {[decodes |-> TRUE, len |-> n] : n \in lens} \cup {[decodes |-> FALSE, len |-> 0]}

Min(a, b) == IF a < b THEN a ELSE b
Max(a, b) == IF a > b THEN a ELSE b

\* len(x[lo:hi]) for 0 <= lo, 0 <= hi
SliceLen(len, lo, hi) == Max(0, Min(hi, len) - Min(lo, len))

\* len(np.pad(x, (0, extra)))
PadLen(len, extra) == len + extra

\* a loader that substitutes one second of silence
LoadAudioOneSecond(audio, cfg) == IF audio.decodes THEN audio.len ELSE cfg.sample_rate

\* librosa.load, or np.zeros(self.sample_rate * 2) when it raises
LoadAudio(audio, cfg) == IF audio.decodes THEN audio.len ELSE cfg.sample_rate * 2

\* "Ensure minimum length": pad to int(sample_rate * 1.0)
EnsureMinLength(len, cfg) ==
    LET min_length == cfg.sample_rate
    IN IF len < min_length THEN PadLen(len, min_length - len) ELSE len

\* the trim keeps audio[start:target_length]
TrimOrPadEndIndex(len, target_length) ==
    IF len > target_length
    THEN LET start == (len - target_length) \div 2
         IN SliceLen(len, start, target_length)
    ELSE PadLen(len, target_length - len)

\* "Trim or pad to target duration": audio[start:start + target_length] from
\* the centre, or zero padding at the end
TrimOrPad(len, target_length) ==
    IF len > target_length
    THEN LET start == (len - target_length) \div 2
         IN SliceLen(len, start, start + target_length)
    ELSE PadLen(len, target_length - len)

\* shape of librosa.feature.melspectrogram(y, n_mels=, hop_length=512), centred frames
MelSpectrogramShape(len, cfg) == <<cfg.n_mels, 1 + (len \div HOP_LENGTH)>>

\* "Ensure correct shape (n_mels, time_steps)"
FixTimeAxis(shape, cfg) ==
    IF shape[2] < cfg.time_steps
    THEN <<shape[1], PadLen(shape[2], cfg.time_steps - shape[2])>>
    ELSE IF shape[2] > cfg.time_steps
         THEN <<shape[1], SliceLen(shape[2], 0, cfg.time_steps)>>
         ELSE shape

\* _load_and_preprocess, with the lengths it passes through
LoadAndPreprocess(audio, cfg) ==
    LET loaded == LoadAudio(audio, cfg)
        padded == EnsureMinLength(loaded, cfg)
        fitted == TrimOrPad(padded, TargetLength(cfg))
        mel    == MelSpectrogramShape(fitted, cfg)
    IN [loaded |-> loaded, fitted |-> fitted, mel_shape |-> mel,
        shape |-> FixTimeAxis(mel, cfg)]

NoSubset == [dataset |-> 0, indices |-> {}]
NoItem == [status |-> "none", split |-> "none", idx |-> -1, label |-> -1,
           audio |-> [decodes |-> FALSE, len |-> 0],
           pre |-> [loaded |-> 0, fitted |-> 0, mel_shape |-> <<0, 0>>, shape |-> <<0, 0>>],
           augmented |-> FALSE]

RECURSIVE SeqsUpTo(_, _)
SeqsUpTo(S, n) ==
    IF n = 0 THEN {<<>>}
    ELSE LET shorter == SeqsUpTo(S, n - 1)
         IN shorter \cup {Append(s, x) : s \in shorter, x \in S}

DataInit ==
    /\ dpc = "start"
    /\ manifest \in SeqsUpTo(ManifestLabels, MaxSamples)
    /\ args_use_augmentation \in BOOLEAN
    /\ args_val_split \in {20, 50}
    /\ feature_args \in FeatureConfigs
    /\ datasets = <<>>
    /\ train_dataset = NoSubset
    /\ val_dataset = NoSubset
    /\ last_item = NoItem

\* AudioEmotionDataset.__init__: the fields are stored, the CSV is read and the
\* class distribution is counted; no row is rejected
NewDataset(use_augmentation) == [use_augmentation |-> use_augmentation]

\* full_dataset = AudioEmotionDataset(..., use_augmentation=args.use_augmentation)
ConstructDataset ==
    /\ dpc = "start"
    /\ datasets' = Append(datasets, NewDataset(args_use_augmentation))
    /\ dpc' = "constructed"
    /\ UNCHANGED <<manifest, args_use_augmentation, args_val_split, feature_args,
                   train_dataset, val_dataset, last_item>>
    /\ UNCHANGED <<trainVars, augVars, inferVars>>

\* random_split: two Subset objects over the same dataset object
RandomSplit ==
    /\ dpc = "constructed"
    /\ LET n == Len(manifest)
           val_size == (n * args_val_split) \div 100
           full_dataset == Len(datasets)
       IN \E val_idx \in SUBSET (0..(n - 1)) :
            /\ Cardinality(val_idx) = val_size
            /\ val_dataset' = [dataset |-> full_dataset, indices |-> val_idx]
            /\ train_dataset' = [dataset |-> full_dataset,
                                 indices |-> (0..(n - 1)) \ val_idx]
    /\ dpc' = "split"
    /\ UNCHANGED <<manifest, args_use_augmentation, args_val_split, feature_args,
                   datasets, last_item>>
    /\ UNCHANGED <<trainVars, augVars, inferVars>>

\* val_dataset.dataset.use_augmentation = False, then the two DataLoaders
DisableValAugmentation ==
    /\ dpc = "split"
    /\ datasets' = [datasets EXCEPT ![val_dataset.dataset].use_augmentation = FALSE]
    /\ dpc' = "ready"
    /\ UNCHANGED <<manifest, args_use_augmentation, args_val_split, feature_args,
                   train_dataset, val_dataset, last_item>>
    /\ UNCHANGED <<trainVars, augVars, inferVars>>

\* AudioEmotionDataset.__getitem__(idx) on the dataset object self
GetItem(self, split, idx, audio) ==
    LET label == EmotionToIdx(manifest[idx + 1])
    IN IF label = -1
       THEN [NoItem EXCEPT !.status = "KeyError", !.split = split, !.idx = idx]
       ELSE [status |-> "ok", split |-> split, idx |-> idx, label |-> label,
             audio |-> audio,
             pre |-> LoadAndPreprocess(audio, feature_args),
             augmented |-> datasets[self].use_augmentation]

\* Subset.__getitem__ of `subset`, as the DataLoader of that split calls it;
\* an exception ends the run
Fetch(subset, split) ==
    /\ dpc = "ready"
    /\ \E idx \in subset.indices, audio \in AudioInputs(feature_args) :
         /\ last_item' = GetItem(subset.dataset, split, idx, audio)
         /\ dpc' = IF last_item'.status = "ok" THEN "ready" ELSE "crashed"
    /\ UNCHANGED <<manifest, args_use_augmentation, args_val_split, feature_args,
                   datasets, train_dataset, val_dataset>>
    /\ UNCHANGED <<trainVars, augVars, inferVars>>

\* a sample drawn by train_epoch through train_loader
FetchTrain == Fetch(train_dataset, "train")

\* a sample drawn by validate through val_loader
FetchVal == Fetch(val_dataset, "val")

DataNext ==
    \/ ConstructDataset
    \/ RandomSplit
    \/ DisableValAugmentation
    \/ FetchTrain
    \/ FetchVal

-----------------------------------------------------------------------------
(* Properties of the dataset adapter *)

\* C3 as stated: with use_augmentation enabled, every sample fetched from the
\* training split is augmented and no sample fetched from the validation
\* split is.
C3_AugmentTrainOnly ==
    (args_use_augmentation /\ last_item.status = "ok") =>
        (last_item.augmented <=> (last_item.split = "train"))

\* C5 as stated: with a row whose label is not one of the five, the
\* construction of the dataset does not succeed.
C5_UnknownLabelFailsConstruction ==
    (\E i \in 1..Len(manifest) : EmotionToIdx(manifest[i]) = -1) =>
        dpc \notin {"constructed", "split", "ready"}

\* C10: every feature returned by _load_and_preprocess has shape exactly
\* (n_mels, time_steps), whatever the source length and also for the silence
\* buffer of a decode failure; on the way the waveform has exactly
\* target_length samples before the spectrogram is taken.
C10_FixedShape ==
    (last_item.status = "ok") =>
        /\ last_item.pre.fitted = TargetLength(feature_args)
        /\ last_item.pre.shape = <<feature_args.n_mels, feature_args.time_steps>>

\* a source longer than the target whose spectrogram had too many frames
C10_Witness ==
    /\ last_item.status = "ok"
    /\ last_item.audio.decodes
    /\ last_item.audio.len > TargetLength(feature_args)
    /\ last_item.pre.mel_shape[2] > feature_args.time_steps
    /\ last_item.pre.shape[2] = feature_args.time_steps

\* C13: a fetch whose audio file cannot be decoded does not raise: two seconds
\* of zeros at the target sample rate take the place of the audio, the rest of
\* the pipeline treats them as it treats a decoded signal of that length, and
\* __getitem__ returns the fixed-shape feature with the row's class index. The
\* only exception a fetch raises is the label lookup, which precedes decoding.
C13_SilenceOnDecodeFailure ==
    /\ (dpc = "crashed") => (last_item.status = "KeyError")
    /\ (last_item.status \notin {"none", "KeyError"} /\ ~last_item.audio.decodes) =>
        LET silence == [decodes |-> TRUE, len |-> 2 * feature_args.sample_rate]
        IN /\ last_item.status = "ok"
           /\ dpc = "ready"
           /\ last_item.pre.loaded = 2 * feature_args.sample_rate
           /\ last_item.pre = LoadAndPreprocess(silence, feature_args)
           /\ last_item.pre.shape = <<feature_args.n_mels, feature_args.time_steps>>
           /\ last_item.label = EmotionToIdx(manifest[last_item.idx + 1])
           /\ last_item.label \in 0..(Len(EMOTION_CLASSES) - 1)

\* an undecodable file fetched where two seconds are longer than the target
C13_Witness ==
    /\ last_item.status = "ok"
    /\ ~last_item.audio.decodes
    /\ last_item.pre.loaded > last_item.pre.fitted
    /\ last_item.label > 0

-----------------------------------------------------------------------------
(* dataset.py: AudioEmotionDataset._augment *)

\* Array values are integers in thousandths of a decibel; the spectrograms
\* drawn hold multiples of ten decibels, the noise multiples of 0.01.

\* the (n_mels, time_steps) of the dataset object: one smaller than every mask
\* and one larger than every mask
AugmentShapes == {[n_mels |-> 2, time_steps |-> 3], [n_mels |-> 9, time_steps |-> 6]}

\* a log-mel spectrogram of the given shape: non-positive decibel values
Spectrogram(shape, seed) ==
    [i \in 1..shape.n_mels |->
        [j \in 1..shape.time_steps |->
            (0 - 10000) * (1 + ((3 * i + j + seed) % 4))]]

SpectrogramSeeds == 0..3

\* np.random.normal(0, 0.01, spectrogram.shape): no noise, the same noise in
\* every cell, or noise of alternating sign
NoiseKinds == {"zero", "flat", "alternating"}

Noise(kind, shape) ==
    [i \in 1..shape.n_mels |->
        [j \in 1..shape.time_steps |->
            IF kind = "zero" THEN 0
            ELSE IF kind = "flat" THEN 10
            ELSE IF (i + j) % 2 = 0 THEN 10 ELSE 0 - 10]]

\* np.random.uniform(0.9, 1.1), in tenths
GainLevels == {9, 10, 11}

\* a gate that is always taken
GateAlways(r) == TRUE

\* `np.random.random() > 0.5` for the draw r / RandSteps
GateTaken(r) == 2 * r > RandSteps

\* np.random.randint(1, 5) and np.random.randint(1, 8)
MaskWidths == 1..4
MaskHeights == 1..7

\* np.random.randint(0, max(1, size - extent))
MaskStarts(size, extent) == 0..(Max(1, size - extent) - 1)

NoDraw == [noise |-> "zero", gain |-> 10, time_gate |-> 0, mask_width |-> 1,
           time_start |-> 0, freq_gate |-> 0, mask_height |-> 1, freq_start |-> 0]

\* the draws one call of _augment can make on the object self; a mask's width
\* and start are drawn only when its gate is taken
AugmentDraws(self) ==
    LET time_part ==
            {[time_gate |-> r, mask_width |-> 1, time_start |-> 0] :
                r \in {g \in 0..(RandSteps - 1) : ~GateTaken(g)}}
            \cup UNION {{[time_gate |-> r, mask_width |-> w, time_start |-> st] :
                            r \in {g \in 0..(RandSteps - 1) : GateTaken(g)},
                            st \in MaskStarts(self.time_steps, w)} : w \in MaskWidths}
        freq_part ==
            {[freq_gate |-> r, mask_height |-> 1, freq_start |-> 0] :
                r \in {g \in 0..(RandSteps - 1) : ~GateTaken(g)}}
            \cup UNION {{[freq_gate |-> r, mask_height |-> h, freq_start |-> st] :
                            r \in {g \in 0..(RandSteps - 1) : GateTaken(g)},
                            st \in MaskStarts(self.n_mels, h)} : h \in MaskHeights}
    IN {[noise |-> k, gain |-> g,
         time_gate |-> t.time_gate, mask_width |-> t.mask_width,
         time_start |-> t.time_start,
         freq_gate |-> f.freq_gate, mask_height |-> f.mask_height,
         freq_start |-> f.freq_start] :
            k \in NoiseKinds, g \in GainLevels, t \in time_part, f \in freq_part}

\* spectrogram + noise
AddNoise(spectrogram, noise) ==
    [i \in 1..Len(spectrogram) |->
        [j \in 1..Len(spectrogram[i]) |-> spectrogram[i][j] + noise[i][j]]]

\* spectrogram * gain
ApplyGain(spectrogram, gain) ==
    [i \in 1..Len(spectrogram) |->
        [j \in 1..Len(spectrogram[i]) |-> (spectrogram[i][j] * gain) \div 10]]

\* spectrogram[:, mask_start:mask_start + mask_width] = 0; the slice is clipped
\* to the columns the array has
MaskTime(spectrogram, mask_start, mask_width) ==
    [i \in 1..Len(spectrogram) |->
        [j \in 1..Len(spectrogram[i]) |->
            IF j - 1 >= mask_start /\ j - 1 < mask_start + mask_width
            THEN 0 ELSE spectrogram[i][j]]]

\* spectrogram[mask_start:mask_start + mask_height, :] = 0
MaskFrequency(spectrogram, mask_start, mask_height) ==
    [i \in 1..Len(spectrogram) |->
        [j \in 1..Len(spectrogram[i]) |->
            IF i - 1 >= mask_start /\ i - 1 < mask_start + mask_height
            THEN 0 ELSE spectrogram[i][j]]]

\* AudioEmotionDataset._augment(spectrogram) on the object self
Augment(self, spectrogram, draw) ==
    LET shape == [n_mels |-> Len(spectrogram), time_steps |-> Len(spectrogram[1])]
        noisy == AddNoise(spectrogram, Noise(draw.noise, shape))
        gained == ApplyGain(noisy, draw.gain)
        time_masked == IF GateTaken(draw.time_gate)
                       THEN MaskTime(gained, draw.time_start, draw.mask_width)
                       ELSE gained
    IN IF GateTaken(draw.freq_gate)
       THEN MaskFrequency(time_masked, draw.freq_start, draw.mask_height)
       ELSE time_masked

AugmentInit ==
    /\ apc = "ready"
    /\ aug_self \in AugmentShapes
    /\ \E seed \in SpectrogramSeeds : aug_input = Spectrogram(aug_self, seed)
    /\ aug_draw = NoDraw
    /\ aug_output = <<>>

\* __getitem__ calls self._augment(spectrogram)
CallAugment ==
    /\ apc = "ready"
    /\ \E draw \in AugmentDraws(aug_self) :
         /\ aug_draw' = draw
         /\ aug_output' = Augment(aug_self, aug_input, draw)
    /\ apc' = "returned"
    /\ UNCHANGED <<aug_self, aug_input>>
    /\ UNCHANGED <<trainVars, dataVars, inferVars>>

AugmentNext == CallAugment

\* numpy's .shape of a two-dimensional array held as a sequence of rows
ShapeOf(array) ==
    IF \A i \in 1..Len(array) : Len(array[i]) = Len(array[1])
    THEN <<Len(array), Len(array[1])>>
    ELSE <<Len(array), -1>>

\* C14: whatever the draws, _augment returns an array of the shape of its
\* input; when the noise is zero, the gain is one and neither gate draw
\* exceeds 0.5, the array returned equals the input.
C14_AugmentShapeAndIdentity ==
    (apc = "returned") =>
        /\ ShapeOf(aug_output) = ShapeOf(aug_input)
        /\ ShapeOf(aug_output) = <<aug_self.n_mels, aug_self.time_steps>>
        /\ (/\ aug_draw.noise = "zero"
            /\ aug_draw.gain = 10
            /\ 2 * aug_draw.time_gate <= RandSteps
            /\ 2 * aug_draw.freq_gate <= RandSteps) => (aug_output = aug_input)

\* a call with all stochastic parts disabled, both gate draws exactly 0.5
C14_Witness ==
    /\ apc = "returned"
    /\ aug_self = [n_mels |-> 9, time_steps |-> 6]
    /\ aug_draw.noise = "zero"
    /\ aug_draw.gain = 10
    /\ 2 * aug_draw.time_gate = RandSteps
    /\ 2 * aug_draw.freq_gate = RandSteps
    /\ aug_output = aug_input

-----------------------------------------------------------------------------
(* emotion_classifier.py: EmotionClassifier, get_classifier *)

\* the serving table listed alphabetically, as a label encoder would order it
EMOTIONS_Sorted == <<"angry", "happy", "neutral", "sad", "surprised">>

\* EMOTIONS
EMOTIONS == <<"happy", "sad", "angry", "surprised", "neutral">>

\* a line of standard output: a print of plain text, or of json.dumps(dict);
\* error = "" stands for a dict without the 'error' key
Log(text) == [kind |-> "log", text |-> text, error |-> "", emotion |-> "", confidence |-> 0]
Json(error, emotion, confidence) ==
    [kind |-> "json", text |-> "", error |-> error, emotion |-> emotion,
     confidence |-> confidence]

\* EmotionClassifier.load_model: everything is inside one try; any exception
\* prints the error and sets self.model = None
LoadModel(model, metadata) ==
    IF model = "corrupt"
    THEN [model |-> "None", metadata |-> "None",
          out |-> <<Log("Loading model"), Log("Error loading model")>>]
    ELSE IF metadata = "absent"
    THEN [model |-> "loaded", metadata |-> "None",
          out |-> <<Log("Loading model"), Log("Metadata not found")>>]
    ELSE IF metadata = "unreadable"       \* open or json.load raises
    THEN [model |-> "None", metadata |-> "None",
          out |-> <<Log("Loading model"), Log("Error loading model")>>]
    ELSE IF metadata = "no_accuracy"      \* format(Keyword 'N/A', '.2%') raises
    THEN [model |-> "None", metadata |-> "no_accuracy",
          out |-> <<Log("Loading model"), Log("Model loaded successfully"),
                    Log("Error loading model")>>]
    ELSE [model |-> "loaded", metadata |-> "ok",
          out |-> <<Log("Loading model"), Log("Model loaded successfully"),
                    Log("Test accuracy")>>]

\* EmotionClassifier.__init__(model_path=None)
NewClassifier(model, metadata) ==
    IF model # "absent"
    THEN LoadModel(model, metadata)
    ELSE [model |-> "None", metadata |-> "None",
          out |-> <<Log("Model not found"), Log("Using stub classifier instead")>>]

\* the draws of _stub_classify: np.random.choice(EMOTIONS), np.random.random()
StubDraws == [choice : 1..Len(EMOTIONS), r : 0..(RandSteps - 1)]

\* a stub whose confidence is spread over [0.5, 1.0)
StubClassifyWide(draw) ==
    [emotion |-> EMOTIONS[draw.choice],
     confidence |-> 500 + ((draw.r * 500) \div RandSteps)]

\* _stub_classify: confidence = 0.6 + np.random.random() * 0.3
StubClassify(draw) ==
    [emotion |-> EMOTIONS[draw.choice],
     confidence |-> 600 + ((draw.r * 300) \div RandSteps)]

\* what self.model.predict and the indexing of EMOTIONS can do: raise, or give
\* the arg-max class and its probability
Predictions ==
    {[raises |-> TRUE, idx |-> 0, confidence |-> 0]} \cup
    [raises : {FALSE}, idx : 0..(Len(EMOTIONS) - 1), confidence : {600, 1000}]

NoResult == [status |-> "none", path |-> "none", emotion |-> "", confidence |-> -1,
             model_loaded |-> FALSE, features_ok |-> FALSE, out |-> <<>>]

\* EmotionClassifier.classify on the object self; features_ok: extract_features
\* returned an array and not None
Classify(self, features_ok, prediction, draw) ==
    LET base == [NoResult EXCEPT !.model_loaded = (self.model # "None"),
                                 !.features_ok = features_ok]
        stub == StubClassify(draw)
    IN IF self.model = "None"
       THEN [base EXCEPT !.status = "returned", !.path = "stub",
                         !.emotion = stub.emotion, !.confidence = stub.confidence,
                         !.features_ok = FALSE]
       ELSE IF ~features_ok
       THEN [base EXCEPT !.status = "returned", !.path = "stub",
                         !.emotion = stub.emotion, !.confidence = stub.confidence,
                         !.out = <<Log("Error extracting features")>>]
       ELSE IF prediction.raises
       THEN [base EXCEPT !.status = "raised", !.path = "model"]
       ELSE [base EXCEPT !.status = "returned", !.path = "model",
                         !.emotion = EMOTIONS[prediction.idx + 1],
                         !.confidence = prediction.confidence]

\* the environment of one classify call on self: whether the audio at
\* audio_path can be turned into features, what the model then predicts, and
\* the random draws; only what the call consults is varied
ClassifyInputs(self) ==
    LET no_prediction == [raises |-> FALSE, idx |-> 0, confidence |-> 600]
        no_draw == [choice |-> 1, r |-> 0]
        stubbed == {[features_ok |-> FALSE, prediction |-> no_prediction, draw |-> d] :
                       d \in StubDraws}
        predicted == {[features_ok |-> TRUE, prediction |-> p, draw |-> no_draw] :
                         p \in Predictions}
    IN IF self.model = "None" THEN stubbed ELSE stubbed \cup predicted

\* the (emotion, confidence) tuple the caller of classify receives
Returned(result) == [emotion |-> result.emotion, confidence |-> result.confidence]

NoTuple == [emotion |-> "", confidence |-> -1]

\* the states a model file on disk can be in
ModelFileStates == {"absent", "corrupt", "ok"}

InferInit ==
    /\ model_file \in ModelFileStates
    /\ metadata_file \in {"absent", "unreadable", "no_accuracy", "ok"}
    /\ argv_has_path \in BOOLEAN
    /\ classifiers = <<>>
    /\ global_classifier = 0
    /\ calls = 0
    /\ last_result = NoResult
    /\ last_model_result = NoTuple
    /\ last_stub_result = NoTuple
    /\ stdout = <<>>
    /\ exit_status = -1

\* EmotionClassifier(): the new heap, the reference to the object made and the
\* output of its construction; next to self.model and self.metadata the object
\* records what was on disk when it was built
Construct ==
    LET made == NewClassifier(model_file, metadata_file)
    IN [heap |-> Append(classifiers,
                        [model |-> made.model, metadata |-> made.metadata,
                         file |-> model_file, sidecar |-> metadata_file]),
        global |-> Len(classifiers) + 1,
        out |-> made.out]

\* a get_classifier that builds a classifier on every call
GetClassifierEffectFresh == Construct

\* get_classifier(): the heap, the global and the output after the call
GetClassifierEffect ==
    IF global_classifier = 0
    THEN Construct
    ELSE [heap |-> classifiers, global |-> global_classifier, out |-> <<>>]

\* the bookkeeping of one classify outcome
Record(result) ==
    /\ last_result' = result
    /\ last_model_result' = IF result.status = "returned" /\ result.path = "model"
                            THEN Returned(result) ELSE last_model_result
    /\ last_stub_result' = IF result.status = "returned" /\ result.path = "stub"
                           THEN Returned(result) ELSE last_stub_result
    /\ calls' = calls + 1

\* a caller in the process calls get_classifier()
GetClassifier ==
    /\ exit_status = -1
    /\ LET eff == GetClassifierEffect
       IN /\ classifiers' = eff.heap
          /\ global_classifier' = eff.global
          /\ stdout' = stdout \o eff.out
    /\ UNCHANGED <<model_file, metadata_file, argv_has_path, calls, last_result,
                   last_model_result, last_stub_result, exit_status>>
    /\ UNCHANGED <<trainVars, dataVars, augVars>>

\* while the process lives, the model file is written, replaced or removed
ReplaceModelFile ==
    /\ exit_status = -1
    /\ \E file \in ModelFileStates \ {model_file} : model_file' = file
    /\ UNCHANGED <<metadata_file, argv_has_path, classifiers, global_classifier,
                   calls, last_result, last_model_result, last_stub_result,
                   stdout, exit_status>>
    /\ UNCHANGED <<trainVars, dataVars, augVars>>

\* a caller in the process calls classify on the classifier it was handed
CallClassify ==
    /\ exit_status = -1
    /\ global_classifier # 0
    /\ calls < MaxCalls
    /\ \E in \in ClassifyInputs(classifiers[global_classifier]) :
         LET result == Classify(classifiers[global_classifier], in.features_ok,
                                in.prediction, in.draw)
         IN /\ Record(result)
            /\ stdout' = stdout \o result.out
    /\ UNCHANGED <<model_file, metadata_file, argv_has_path, classifiers,
                   global_classifier, exit_status>>
    /\ UNCHANGED <<trainVars, dataVars, augVars>>

-----------------------------------------------------------------------------
(* classify_audio.py: main *)

\* an exception raised inside the try is left to propagate
PropagateException(lines, message) == [out |-> lines, exit |-> 1]

\* `except Exception as e`: print the error object, sys.exit(1)
HandleException(lines, message) ==
    [out |-> Append(lines, Json(message, "neutral", 500)), exit |-> 1]

\* result = {'emotion': emotion, 'confidence': float(confidence)}
ResultJson(tuple) == Json("", tuple.emotion, tuple.confidence)

\* classify_audio.py main, from argv to the end of the process
Main ==
    /\ exit_status = -1
    /\ calls < MaxCalls
    /\ IF ~argv_has_path
       THEN /\ stdout' = Append(stdout, Json("Audio path required", "neutral", 500))
            /\ exit_status' = 1
            /\ UNCHANGED <<classifiers, global_classifier, calls, last_result,
                           last_model_result, last_stub_result>>
       ELSE \E in \in ClassifyInputs(GetClassifierEffect.heap[GetClassifierEffect.global]) :
              LET eff == GetClassifierEffect
                  result == Classify(eff.heap[eff.global], in.features_ok,
                                     in.prediction, in.draw)
                  lines == (stdout \o eff.out) \o result.out
                  failed == HandleException(lines, "exception")
              IN /\ classifiers' = eff.heap
                 /\ global_classifier' = eff.global
                 /\ Record(result)
                 /\ IF result.status = "returned"
                    THEN /\ stdout' = Append(lines, ResultJson(Returned(result)))
                         /\ exit_status' = 0
                    ELSE /\ stdout' = failed.out
                         /\ exit_status' = failed.exit
    /\ UNCHANGED <<model_file, metadata_file, argv_has_path>>
    /\ UNCHANGED <<trainVars, dataVars, augVars>>

InferNext ==
    \/ GetClassifier
    \/ ReplaceModelFile
    \/ CallClassify
    \/ Main

-----------------------------------------------------------------------------
(* Properties of the inference adapter *)

EmotionSet == {EMOTIONS[i] : i \in 1..Len(EMOTIONS)}

IsJson(line) == line.kind = "json"

\* C7: a classifier built while the model file was absent or could not be
\* loaded has no model, and every classify call made with no model loaded, or whose
\* feature extraction gave None, returns (does not raise) one of the five
\* labels with a confidence in [0.6, 0.9].
C7_FallbackInRange ==
    /\ \A c \in 1..Len(classifiers) :
         (classifiers[c].file \in {"absent", "corrupt"}) => classifiers[c].model = "None"
    /\ (last_result.status # "none"
          /\ (~last_result.model_loaded \/ ~last_result.features_ok)) =>
         /\ last_result.status = "returned"
         /\ last_result.emotion \in EmotionSet
         /\ last_result.confidence >= 600
         /\ last_result.confidence <= 900

\* repeated calls, the latest one falling back because feature extraction
\* failed under a loaded model, with a confidence above the lower end
C7_Witness ==
    /\ calls >= 2
    /\ last_result.status = "returned"
    /\ last_result.model_loaded
    /\ ~last_result.features_ok
    /\ last_result.confidence > 600

\* C8: once the classify_audio command has ended, standard output holds
\* exactly one JSON object, printed last; after a run with a path argument and
\* no exception it is {emotion, confidence} of the classification and the exit
\* status is 0; without a path argument, or after an exception, it carries an
\* error message with emotion "neutral" and confidence 0.5 and the exit status
\* is 1.
C8_OneStructuredResult ==
    (exit_status # -1) =>
        LET objects == SelectSeq(stdout, IsJson)
        IN /\ Len(objects) = 1
           /\ Last(stdout) = objects[1]
           /\ IF argv_has_path /\ last_result.status = "returned"
              THEN /\ exit_status = 0
                   /\ objects[1].error = ""
                   /\ objects[1].emotion = last_result.emotion
                   /\ objects[1].emotion \in EmotionSet
                   /\ objects[1].confidence = last_result.confidence
              ELSE /\ exit_status = 1
                   /\ objects[1].error # ""
                   /\ objects[1].emotion = "neutral"
                   /\ objects[1].confidence = 500

\* the command ended after the prediction raised inside the try
C8_Witness ==
    /\ exit_status = 1
    /\ argv_has_path
    /\ last_result.status = "raised"

\* C9 as stated: a tuple returned by the random fallback and a tuple returned
\* from a model prediction never coincide, and neither do the objects the
\* command prints for them.
C9_FallbackDistinguishable ==
    (last_stub_result # NoTuple /\ last_model_result # NoTuple) =>
        /\ last_stub_result # last_model_result
        /\ ResultJson(last_stub_result) # ResultJson(last_model_result)

\* the lines EmotionClassifier.__init__ prints when it looks the model file up
IsLookup(line) == line \in {Log("Loading model"), Log("Model not found")}

\* C12: in one process at most one EmotionClassifier is ever constructed and
\* the model file is looked up at most once; once the global holds an instance
\* every later step, get_classifier calls included, leaves the global and the
\* instance as they are, whatever happens to the model file afterwards.
C12_LazySingleton ==
    /\ [](/\ Len(classifiers) <= 1
          /\ global_classifier = Len(classifiers)
          /\ Len(SelectSeq(stdout, IsLookup)) = Len(classifiers))
    /\ [][global_classifier # 0 =>
             /\ global_classifier' = global_classifier
             /\ classifiers' = classifiers
             /\ Len(SelectSeq(stdout', IsLookup)) = 1]_vars

\* the model file appeared after the classifier was built without it, and the
\* command then ran through get_classifier and classified with the stub
C12_Witness ==
    /\ exit_status = 0
    /\ calls >= 2
    /\ classifiers[1].file = "absent"
    /\ model_file = "ok"
    /\ metadata_file = "ok"
    /\ ~last_result.model_loaded

\* C19 as stated: a classifier built while the model file existed and could
\* be loaded holds the model, whatever the metadata sidecar was, and every
\* classify call on it is made with the model loaded.
C19_ModelKeptWhateverMetadata ==
    /\ \A c \in 1..Len(classifiers) :
         (classifiers[c].file = "ok") => (classifiers[c].model # "None")
    /\ (last_result.status # "none" /\ classifiers[global_classifier].file = "ok") =>
         last_result.model_loaded

\* C20 as stated: when the classify_audio command has ended, standard output
\* holds exactly one JSON object and nothing else.
C20_StdoutIsOneJsonObject ==
    (exit_status # -1) => (Len(stdout) = 1 /\ IsJson(stdout[1]))

-----------------------------------------------------------------------------
(* The class-index tables of the components *)

\* train.py: EMOTION_CLASSES
TRAIN_EMOTION_CLASSES == <<"happy", "sad", "angry", "surprised", "neutral">>

\* train_emotion_model.py: EMOTIONS, whose enumerate() index is the training label
TF_TRAIN_EMOTIONS == <<"happy", "sad", "angry", "surprised", "neutral">>

\* position of a label in an ordered label list, 0-based; -1 when it is missing
IndexIn(table, label) ==
    IF \E i \in 1..Len(table) : table[i] = label
    THEN (CHOOSE i \in 1..Len(table) : table[i] = label) - 1
    ELSE -1

\* train.py: EMOTION_TO_IDX = {emotion: idx for idx, emotion in enumerate(EMOTION_CLASSES)}
EMOTION_TO_IDX(label) == IndexIn(TRAIN_EMOTION_CLASSES, label)

\* train.py: IDX_TO_EMOTION = {idx: emotion for emotion, idx in EMOTION_TO_IDX.items()}
IDX_TO_EMOTION(idx) ==
    CHOOSE label \in {TRAIN_EMOTION_CLASSES[i] : i \in 1..Len(TRAIN_EMOTION_CLASSES)} :
        EMOTION_TO_IDX(label) = idx

\* C11: the four ordered label lists are identical, and the class index the
\* dataset gives a fetched label maps back to the identical string through
\* the table of train.py and through the training and serving tables of the
\* inference stack; the training script's table gives the same index.
C11_LabelRoundTrip ==
    /\ TRAIN_EMOTION_CLASSES = EMOTION_CLASSES
    /\ TF_TRAIN_EMOTIONS = EMOTION_CLASSES
    /\ EMOTIONS = EMOTION_CLASSES
    /\ \A i \in 1..Len(EMOTION_CLASSES) :
          LET label == EMOTION_CLASSES[i]
          IN /\ EmotionToIdx(label) = i - 1
             /\ IDX_TO_EMOTION(EmotionToIdx(label)) = label
             /\ EMOTIONS[EmotionToIdx(label) + 1] = label
             /\ IDX_TO_EMOTION(IndexIn(TF_TRAIN_EMOTIONS, label)) = label
             /\ EMOTIONS[IndexIn(TF_TRAIN_EMOTIONS, label) + 1] = label
    /\ (last_item.status = "ok") =>
         LET label == manifest[last_item.idx + 1]
             idx == last_item.label
         IN /\ idx \in 0..4
            /\ EMOTION_TO_IDX(label) = idx
            /\ IDX_TO_EMOTION(idx) = label
            /\ TF_TRAIN_EMOTIONS[idx + 1] = label
            /\ EMOTIONS[idx + 1] = label
            /\ EMOTIONS[IndexIn(TF_TRAIN_EMOTIONS, label) + 1] = label

\* a fetched sample whose label is neither the first nor the last of the list
C11_Witness ==
    /\ last_item.status = "ok"
    /\ manifest[last_item.idx + 1] = "angry"
    /\ last_item.label = 2

-----------------------------------------------------------------------------
(* Specifications *)

\* the part of the state a specification does not exercise is held fixed
TrainIdle ==
    /\ tpc = "idle"
    /\ args_epochs = 0
    /\ early_stopping_patience = 1
    /\ epoch = 0
    /\ best_val_acc = 0
    /\ patience_counter = 0
    /\ val_acc_history = <<>>
    /\ loss_history = <<>>
    /\ acc_history = <<>>
    /\ val_loss_history = <<>>
    /\ metrics = NoMetrics
    /\ scheduler = NewScheduler
    /\ lr = InitialLr
    /\ model_state = 0
    /\ ckpt = NoFile
    /\ early_stop_msg = FALSE
    /\ onnx_file = NoArtifact
    /\ coreml_file = NoArtifact

DataIdle ==
    /\ dpc = "idle"
    /\ manifest = <<>>
    /\ args_use_augmentation = FALSE
    /\ args_val_split = 20
    /\ feature_args = [n_mels |-> 64, time_steps |-> 100, sample_rate |-> 16000]
    /\ datasets = <<>>
    /\ train_dataset = NoSubset
    /\ val_dataset = NoSubset
    /\ last_item = NoItem

InferIdle ==
    /\ model_file = "absent"
    /\ metadata_file = "absent"
    /\ argv_has_path = FALSE
    /\ classifiers = <<>>
    /\ global_classifier = 0
    /\ calls = 0
    /\ last_result = NoResult
    /\ last_model_result = NoTuple
    /\ last_stub_result = NoTuple
    /\ stdout = <<>>
    /\ exit_status = -1

AugmentIdle ==
    /\ apc = "idle"
    /\ aug_self = [n_mels |-> 0, time_steps |-> 0]
    /\ aug_input = <<>>
    /\ aug_draw = NoDraw
    /\ aug_output = <<>>

TrainSpecInit == DataIdle /\ AugmentIdle /\ InferIdle /\ TrainInit
DataSpecInit == TrainIdle /\ AugmentIdle /\ InferIdle /\ DataInit
AugmentSpecInit == TrainIdle /\ DataIdle /\ InferIdle /\ AugmentInit
InferSpecInit == TrainIdle /\ DataIdle /\ AugmentIdle /\ InferInit

\* the training run of train.py main
TrainSpec == TrainSpecInit /\ [][TrainNext]_vars

\* the dataset set-up of train.py main and the samples its loaders draw
DataSpec == DataSpecInit /\ [][DataNext]_vars

\* one call of AudioEmotionDataset._augment
AugmentSpec == AugmentSpecInit /\ [][AugmentNext]_vars

\* a process using emotion_classifier.py, and the classify_audio.py command
InferSpec == InferSpecInit /\ [][InferNext]_vars

====
